---- MODULE Spec2Model ----
(***************************************************************************)
(* The ChewCrew room API (api.go): a registry of voting rooms and the four *)
(* operations Get, New, Vote and End, run by concurrent request handlers.  *)
(* Rooms are heap objects reached through pointers; the registry maps a    *)
(* room ID to a pointer.  Each caller is one request goroutine.            *)
(***************************************************************************)
EXTENDS Integers, Sequences, FiniteSets, TLC

\* ------------------------------------------------------------------ bounds
\* Concurrent request goroutines.
NumCallers == 2
\* API calls started in one run of the server.
MaxOps == 3
\* API calls made in one run by a client that waits for each response.
MaxSeqOps == 5
\* Rooms created in one run.
MaxRooms == 2

Callers == 1..NumCallers

\* ------------------------------------------------------------ input domains
\* The strings generateID(11) draws room IDs and host IDs from.
RoomIDSeq == <<"r1", "r2">>
HostIDSeq == <<"h1", "h2">>
RoomIDs == {RoomIDSeq[i] : i \in 1..Len(RoomIDSeq)}
HostIDs == {HostIDSeq[i] : i \in 1..Len(HostIDSeq)}
\* The hostid query parameter of End: an issued secret, or absent ("").
HostArgs == HostIDs \cup {""}
\* PlaceAPI.Categories(): the categories every room is created with.
Categories == <<"a", "b">>
\* The vote query parameter: a category, or a string that is none.
VoteStrings == {"a", "b", "x"}
\* The name query parameter.
VoterName == "ann"

\* The error values of api.go, and the outcomes of a call.
ErrorRoomNotFound == "Room not found"
ErrorRoomEnded == "Room has ended"
ErrorUnauthorized == "Unauthorized host ID"
NoError == "nil"
Panic == "panic"

VARIABLES
    Rooms,      \* API.Rooms: room ID -> pointer (index into heap), 0 = no entry
    heap,       \* the Room objects allocated so far
    pc,         \* each caller's position in its handler
    loc,        \* each caller's local variables
    resp,       \* the response the last step wrote, NoResp if it wrote none
    issued,     \* per room object: the host ID New generated for it
    cast,       \* per room object: votes whose Vote call returned nil, per string
    ended,      \* per room object: an End call on it has returned nil
    ops         \* API calls the run may still start

vars == <<Rooms, heap, pc, loc, resp, issued, cast, ended, ops>>

\* --------------------------------------------------------------- Go values
\* A Go map[string]int32 field: nil, or a map object with its entries.
NilMap == [isNil |-> TRUE, m |-> [k \in {} |-> 0]]
MakeMap == [isNil |-> FALSE, m |-> [k \in {} |-> 0]]

\* m[k] on a map: the zero value when the key is missing.
MapGet(m, k) == IF k \in DOMAIN m THEN m[k] ELSE 0

\* m[k] = v
MapPut(m, k, v) == [x \in (DOMAIN m) \cup {k} |-> IF x = k THEN v ELSE m[x]]

Range(s) == {s[i] : i \in 1..Len(s)}

RECURSIVE SumOver(_, _)
SumOver(f, S) ==
    IF S = {} THEN 0
    ELSE LET k == CHOOSE x \in S : TRUE IN f[k] + SumOver(f, S \ {k})

MapSum(m) == SumOver(m, DOMAIN m)

\* A new Room as New builds it: both IDs generated, one zero counter per
\* category, in the provider's order.
RECURSIVE PopulateVotes(_, _)
PopulateVotes(m, cats) ==
    IF cats = <<>> THEN m
    ELSE PopulateVotes(MapPut(m, Head(cats), 0), Tail(cats))

NewRoom(id, hostid) ==
    [ID |-> id, HostID |-> hostid, Voters |-> <<>>, Choices |-> Categories,
     Votes |-> [isNil |-> FALSE, m |-> PopulateVotes(MakeMap.m, Categories)],
     Winner |-> "", locked |-> 0]

\* ------------------------------------------------------------- responses
NoResp ==
    [op |-> "none", obj |-> 0, arg |-> "", err |-> NoError, body |-> FALSE,
     id |-> "", hostid |-> "", voters |-> <<>>, choices |-> <<>>,
     winner |-> "", votes |-> FALSE, afterEnd |-> FALSE,
     lookupFailed |-> FALSE]

\* json.Marshal(room): the fields the struct tags let through.  Votes is
\* tagged json:"-" and is never written.
Marshal(room) ==
    [id |-> room.ID, hostid |-> room.HostID, voters |-> room.Voters,
     choices |-> room.Choices, winner |-> room.Winner, votes |-> FALSE]

\* sendJSON(w, room, err) with err != nil, or with both nil.
SendError(op, obj, arg, err) ==
    [NoResp EXCEPT !.op = op, !.obj = obj, !.arg = arg, !.err = err]

\* sendJSON(w, room, nil) with room != nil.
SendRoom(op, obj, room) ==
    LET v == Marshal(room) IN
    [op |-> op, obj |-> obj, arg |-> "", err |-> NoError, body |-> TRUE,
     id |-> v.id, hostid |-> v.hostid, voters |-> v.voters,
     choices |-> v.choices, winner |-> v.winner, votes |-> v.votes,
     afterEnd |-> FALSE, lookupFailed |-> FALSE]

NoLoc == [room |-> 0, arg |-> "", tmp |-> 0, winner |-> "", err |-> NoError,
          afterEnd |-> FALSE, lookupFailed |-> FALSE]

\* ------------------------------------------------------------------- Init
\* NewAPI: no rooms; no request has come in.
InitWith(calls) ==
    /\ Rooms = [id \in RoomIDs |-> 0]
    /\ heap = <<>>
    /\ pc = [c \in Callers |-> "idle"]
    /\ loc = [c \in Callers |-> NoLoc]
    /\ resp = NoResp
    /\ issued = <<>>
    /\ cast = <<>>
    /\ ended = <<>>
    /\ ops = calls

Init == InitWith(MaxOps)

\* A request starts on a free goroutine; the free goroutines are alike, so
\* the first one takes it.
Begin(c) ==
    /\ pc[c] = "idle"
    /\ \A d \in Callers : d < c => pc[d] # "idle"
    /\ ops > 0
    /\ ops' = ops - 1

\* ------------------------------------------------------------- the lookup
\* A lookup whose ok result is never tested.
Found_Unchecked(id) == TRUE

\* room, ok := api.Rooms[id]: ok
Found(id) == Rooms[id] # 0

\* Whether an End call on the object has returned nil so far.
HasEnded(o) == o \in DOMAIN ended /\ ended[o]

\* -------------------------------------------------------------------- Get
\* room, ok := api.Rooms[id]
GetLookup(c, id) ==
    /\ Begin(c)
    /\ IF ~Found(id)
       THEN /\ resp' = SendError("Get", 0, "", ErrorRoomNotFound)
            /\ loc' = [loc EXCEPT ![c] = NoLoc]
            /\ UNCHANGED pc
       ELSE /\ loc' = [loc EXCEPT ![c] = [NoLoc EXCEPT !.room = Rooms[id],
                                                     !.afterEnd = HasEnded(Rooms[id])]]
            /\ pc' = [pc EXCEPT ![c] = "get_hostid"]
            /\ resp' = NoResp
    /\ UNCHANGED <<Rooms, heap, issued, cast, ended>>

\* Get without the first of its two clearing assignments.
ClearHostID_Skipped(room) == room

\* room.HostID = ""
ClearHostID(room) == [room EXCEPT !.HostID = ""]

GetClearHostID(c) ==
    /\ pc[c] = "get_hostid"
    /\ heap' = [heap EXCEPT ![loc[c].room] = ClearHostID(@)]
    /\ pc' = [pc EXCEPT ![c] = "get_votes"]
    /\ UNCHANGED <<Rooms, loc, issued, cast, ended, ops>>
    /\ resp' = NoResp

\* room.Votes = nil
ClearVotes(room) == [room EXCEPT !.Votes = NilMap]

GetClearVotes(c) ==
    /\ pc[c] = "get_votes"
    /\ heap' = [heap EXCEPT ![loc[c].room] = ClearVotes(@)]
    /\ pc' = [pc EXCEPT ![c] = "get_send"]
    /\ UNCHANGED <<Rooms, loc, issued, cast, ended, ops>>
    /\ resp' = NoResp

\* return room, nil; GetHandler then marshals the stored room it points to.
GetSend(c) ==
    /\ pc[c] = "get_send"
    /\ resp' = [SendRoom("Get", loc[c].room, heap[loc[c].room])
                   EXCEPT !.afterEnd = loc[c].afterEnd]
    /\ pc' = [pc EXCEPT ![c] = "idle"]
    /\ UNCHANGED <<Rooms, heap, issued, cast, ended, ops>>
    /\ loc' = [loc EXCEPT ![c] = NoLoc]

\* -------------------------------------------------------------------- New
\* Builds the room and stores its pointer under its ID, replacing whatever
\* pointer was there.
\* generateID(11): an ID already drawn, or a fresh one.  Fresh IDs are
\* alike, so the first unused string stands for them.
GenerateID(strings, drawn) ==
    drawn \cup {strings[i] : i \in {j \in 1..Len(strings) : j = Cardinality(drawn) + 1}}

\* room := Room{...} and the loop over the categories: the room exists, and
\* no registry entry points to it yet.
NewBuild(c, id, hostid) ==
    /\ Begin(c)
    /\ Len(heap) < MaxRooms
    /\ heap' = Append(heap, NewRoom(id, hostid))
    /\ issued' = Append(issued, hostid)
    /\ cast' = Append(cast, [v \in VoteStrings |-> 0])
    /\ ended' = Append(ended, FALSE)
    /\ loc' = [loc EXCEPT ![c] = [NoLoc EXCEPT !.room = Len(heap) + 1]]
    /\ resp' = NoResp
    /\ pc' = [pc EXCEPT ![c] = "new_insert"]
    /\ UNCHANGED Rooms

\* api.Rooms[room.ID] = &room
NewInsert(c) ==
    /\ pc[c] = "new_insert"
    /\ Rooms' = [Rooms EXCEPT ![heap[loc[c].room].ID] = loc[c].room]
    /\ pc' = [pc EXCEPT ![c] = "new_send"]
    /\ UNCHANGED <<heap, loc, issued, cast, ended, ops>>
    /\ resp' = NoResp

\* return &room, nil; NewHandler then marshals the stored room.
NewSend(c) ==
    /\ pc[c] = "new_send"
    /\ resp' = SendRoom("New", loc[c].room, heap[loc[c].room])
    /\ pc' = [pc EXCEPT ![c] = "idle"]
    /\ UNCHANGED <<Rooms, heap, issued, cast, ended, ops>>
    /\ loc' = [loc EXCEPT ![c] = NoLoc]

\* ------------------------------------------------------------- room lock
\* A Lock() that never waits, as if the handlers took no lock.
CanLock_NoMutex(room) == TRUE

\* room.Lock() returns once no caller holds the room's mutex.
CanLock(room) == room.locked = 0

\* An Unlock() written before the return nil only, with no defer.
DeferredUnlock_OnSuccessOnly(room, err) ==
    IF err = NoError THEN [room EXCEPT !.locked = 0] ELSE room

\* defer room.Unlock(): runs on every return and on a panic.
DeferredUnlock(room, err) == [room EXCEPT !.locked = 0]

\* ------------------------------------------------------------------- Vote
\* room, ok := api.Rooms[id]
VoteLookup(c, id, vote) ==
    /\ Begin(c)
    /\ IF ~Found(id)
       THEN /\ resp' = SendError("Vote", 0, vote, ErrorRoomNotFound)
            /\ loc' = [loc EXCEPT ![c] = NoLoc]
            /\ UNCHANGED pc
       ELSE /\ loc' = [loc EXCEPT ![c] = [NoLoc EXCEPT !.room = Rooms[id],
                                                     !.arg = vote,
                                                     !.afterEnd = HasEnded(Rooms[id])]]
            /\ pc' = [pc EXCEPT ![c] = "vote_lock"]
            /\ resp' = NoResp
    /\ UNCHANGED <<Rooms, heap, issued, cast, ended>>

\* room.Lock(); the Winner test; room.Voters = append(room.Voters, name)
VoteLock(c) ==
    LET o == loc[c].room IN
    /\ pc[c] = "vote_lock"
    /\ CanLock(heap[o])
    /\ IF heap[o].Winner # ""
       THEN /\ heap' = [heap EXCEPT ![o].locked = c]
            /\ loc' = [loc EXCEPT ![c].err = ErrorRoomEnded]
            /\ pc' = [pc EXCEPT ![c] = "vote_unlock"]
       ELSE /\ heap' = [heap EXCEPT ![o].locked = c,
                                    ![o].Voters = Append(@, VoterName)]
            /\ loc' = loc
            /\ pc' = [pc EXCEPT ![c] = "vote_read"]
    /\ UNCHANGED <<Rooms, issued, cast, ended, ops>>
    /\ resp' = NoResp

\* room.Votes[vote]++, first half: load the map and the counter.  An
\* assignment to an entry of a nil map panics.
VoteRead(c) ==
    LET o == loc[c].room IN
    /\ pc[c] = "vote_read"
    /\ IF heap[o].Votes.isNil
       THEN /\ loc' = [loc EXCEPT ![c].err = Panic]
            /\ pc' = [pc EXCEPT ![c] = "vote_unlock"]
       ELSE /\ loc' = [loc EXCEPT ![c].tmp = MapGet(heap[o].Votes.m, loc[c].arg)]
            /\ pc' = [pc EXCEPT ![c] = "vote_write"]
    /\ UNCHANGED <<Rooms, heap, issued, cast, ended, ops>>
    /\ resp' = NoResp

\* room.Votes[vote]++, second half: store the counter into the map that was
\* loaded.  If the field was set to nil in between, that map is no longer
\* the room's and the room shows nothing of the store.
VoteWrite(c) ==
    LET o == loc[c].room IN
    /\ pc[c] = "vote_write"
    /\ heap' = IF heap[o].Votes.isNil THEN heap
               ELSE [heap EXCEPT ![o].Votes.m = MapPut(@, loc[c].arg, loc[c].tmp + 1)]
    /\ pc' = [pc EXCEPT ![c] = "vote_unlock"]
    /\ UNCHANGED <<Rooms, loc, issued, cast, ended, ops>>
    /\ resp' = NoResp

\* The deferred room.Unlock(), on the return and on the panic alike, and
\* VoteHandler's response.
VoteUnlock(c) ==
    LET o == loc[c].room IN
    /\ pc[c] = "vote_unlock"
    /\ heap' = [heap EXCEPT ![o] = DeferredUnlock(@, loc[c].err)]
    /\ resp' = [SendError("Vote", o, loc[c].arg, loc[c].err)
                   EXCEPT !.afterEnd = loc[c].afterEnd]
    /\ cast' = IF loc[c].err = NoError
               THEN [cast EXCEPT ![o][loc[c].arg] = @ + 1]
               ELSE cast
    /\ pc' = [pc EXCEPT ![c] = "idle"]
    /\ UNCHANGED <<Rooms, issued, ended, ops>>
    /\ loc' = [loc EXCEPT ![c] = NoLoc]

\* -------------------------------------------------------------------- End
\* The orders in which a range statement may visit the keys of a map.
RangeOrders(S) ==
    {s \in [1..Cardinality(S) -> S] : \A i, j \in 1..Cardinality(S) : s[i] = s[j] => i = j}

\* for k, v := range room.Votes { if v > max { max = v; winner = k } }
RECURSIVE TallyLoop(_, _, _, _)
TallyLoop(m, order, max, winner) ==
    IF order = <<>> THEN winner
    ELSE LET k == Head(order) IN
         IF m[k] > max
         THEN TallyLoop(m, Tail(order), m[k], k)
         ELSE TallyLoop(m, Tail(order), max, winner)

\* The categories the loop can end with, over the orders range may take.
\* Ranging over a nil map visits nothing.
TallyWinners(votes) ==
    IF votes.isNil THEN {""}
    ELSE {TallyLoop(votes.m, order, 0, "") : order \in RangeOrders(DOMAIN votes.m)}

\* api.PlaceAPI.Get(room.PlaceOptions, winner): the place found for the
\* category; End drops the error, and a failed lookup leaves the empty place.
PlaceGet(category) ==
    {[place |-> category, err |-> FALSE], [place |-> "", err |-> TRUE]}

\* room, ok := api.Rooms[id]
EndLookup(c, id, hostid) ==
    /\ Begin(c)
    /\ IF ~Found(id)
       THEN /\ resp' = SendError("End", 0, hostid, ErrorRoomNotFound)
            /\ loc' = [loc EXCEPT ![c] = NoLoc]
            /\ UNCHANGED pc
       ELSE /\ loc' = [loc EXCEPT ![c] = [NoLoc EXCEPT !.room = Rooms[id],
                                                     !.arg = hostid,
                                                     !.afterEnd = HasEnded(Rooms[id])]]
            /\ pc' = [pc EXCEPT ![c] = "end_lock"]
            /\ resp' = NoResp
    /\ UNCHANGED <<Rooms, heap, issued, cast, ended>>

\* room.Lock(); if room.HostID != hostid { return ErrorUnauthorized }
EndLock(c) ==
    LET o == loc[c].room IN
    /\ pc[c] = "end_lock"
    /\ CanLock(heap[o])
    /\ heap' = [heap EXCEPT ![o].locked = c]
    /\ IF heap[o].HostID # loc[c].arg
       THEN /\ loc' = [loc EXCEPT ![c].err = ErrorUnauthorized]
            /\ pc' = [pc EXCEPT ![c] = "end_unlock"]
       ELSE /\ loc' = loc
            /\ pc' = [pc EXCEPT ![c] = "end_tally"]
    /\ UNCHANGED <<Rooms, issued, cast, ended, ops>>
    /\ resp' = NoResp

\* Determine winning category.
EndTally(c) ==
    LET o == loc[c].room IN
    /\ pc[c] = "end_tally"
    /\ \E w \in TallyWinners(heap[o].Votes) :
          loc' = [loc EXCEPT ![c].winner = w]
    /\ pc' = [pc EXCEPT ![c] = "end_place"]
    /\ UNCHANGED <<Rooms, heap, issued, cast, ended, ops>>
    /\ resp' = NoResp

\* place, _ := api.PlaceAPI.Get(...); room.Winner = string(place)
EndPlace(c) ==
    LET o == loc[c].room IN
    /\ pc[c] = "end_place"
    /\ \E r \in PlaceGet(loc[c].winner) :
          /\ heap' = [heap EXCEPT ![o].Winner = r.place]
          /\ loc' = [loc EXCEPT ![c].lookupFailed = r.err]
    /\ pc' = [pc EXCEPT ![c] = "end_unlock"]
    /\ UNCHANGED <<Rooms, issued, cast, ended, ops>>
    /\ resp' = NoResp

\* The deferred room.Unlock() and EndHandler's response, which has no body.
EndUnlock(c) ==
    LET o == loc[c].room IN
    /\ pc[c] = "end_unlock"
    /\ heap' = [heap EXCEPT ![o] = DeferredUnlock(@, loc[c].err)]
    /\ resp' = [SendError("End", o, loc[c].arg, loc[c].err)
                   EXCEPT !.afterEnd = loc[c].afterEnd,
                          !.lookupFailed = loc[c].lookupFailed]
    /\ ended' = [ended EXCEPT ![o] = @ \/ loc[c].err = NoError]
    /\ pc' = [pc EXCEPT ![c] = "idle"]
    /\ UNCHANGED <<Rooms, issued, cast, ops>>
    /\ loc' = [loc EXCEPT ![c] = NoLoc]

\* ------------------------------------------------------------------- Next
\* One step of the request goroutine c.
Step(c) ==
    \/ \E id \in RoomIDs : GetLookup(c, id)
    \/ GetClearHostID(c)
    \/ GetClearVotes(c)
    \/ GetSend(c)
    \/ \E id \in GenerateID(RoomIDSeq, {heap[o].ID : o \in 1..Len(heap)}),
          h \in GenerateID(HostIDSeq, Range(issued)) : NewBuild(c, id, h)
    \/ NewInsert(c)
    \/ NewSend(c)
    \/ \E id \in RoomIDs, v \in VoteStrings : VoteLookup(c, id, v)
    \/ VoteLock(c)
    \/ VoteRead(c)
    \/ VoteWrite(c)
    \/ VoteUnlock(c)
    \/ \E id \in RoomIDs, h \in HostArgs : EndLookup(c, id, h)
    \/ EndLock(c)
    \/ EndTally(c)
    \/ EndPlace(c)
    \/ EndUnlock(c)

\* The server: every request goroutine runs, in any interleaving.
Next == \E c \in Callers : Step(c)

Spec == Init /\ [][Next]_vars

\* One client that waits for each response before its next request.
SeqNext == Step(1)

SeqInit == InitWith(MaxSeqOps)

SeqSpec == SeqInit /\ [][SeqNext]_vars

\* The server under a fair scheduler: a goroutine that can take a step, and
\* stays able to, takes it.
FairSpec == Init /\ [][Next]_vars /\ \A c \in Callers : WF_vars(Step(c))

\* ================================================================ claims
RoomObjs == 1..Len(heap)

\* The votes of room object o whose Vote call returned nil.
VotesReturned(o) == SumOver(cast[o], VoteStrings)

\* Some category has strictly more returned votes than every other string.
HasMajority(o) ==
    \E k \in Range(Categories) : \A j \in VoteStrings \ {k} : cast[o][k] > cast[o][j]

\* A Vote call on room object o is between its Lock and its Unlock.
VoteInProgress(o) ==
    \E c \in Callers :
        loc[c].room = o /\ pc[c] \in {"vote_read", "vote_write", "vote_unlock"}

\* C1: a response that carries a host ID is the response of New for the room
\* object that host ID was generated for; the responses of Get, Vote and End
\* carry no host ID, and no response carries the vote counts.
C1_HostSecretOnlyInNew ==
    /\ resp.hostid # "" =>
          /\ resp.op = "New"
          /\ resp.obj \in RoomObjs
          /\ resp.hostid = issued[resp.obj]
    /\ ~resp.votes

\* C1 witness: Get has answered with the view of a registered room.
C1_Witness ==
    /\ resp.op = "Get"
    /\ resp.body
    /\ resp.obj \in RoomObjs
    /\ issued[resp.obj] # ""

\* C2 (the End step of the scenario): in a room where one category has a
\* strict majority of the returned votes, End called with the host ID that
\* New generated for the room returns nil, whatever Get calls came before.
C2_EndWithIssuedSecretSucceeds ==
    (/\ resp.op = "End"
     /\ resp.obj \in RoomObjs
     /\ resp.arg = issued[resp.obj]
     /\ HasMajority(resp.obj))
        => resp.err = NoError

\* C3: a Vote call started after an End call on the room returned nil gets
\* past the Winner test in no case, and answers ErrorRoomEnded.
C3_VoteAfterEndRejected ==
    /\ \A c \in Callers :
          pc[c] \in {"vote_read", "vote_write"} => ~loc[c].afterEnd
    /\ (resp.op = "Vote" /\ resp.obj \in RoomObjs /\ resp.afterEnd)
          => resp.err = ErrorRoomEnded

\* C4: End called with a host ID other than the one New generated for the
\* room never gets past the host test (so it changes nothing of the room)
\* and answers ErrorUnauthorized.
C4_WrongSecretUnauthorized ==
    /\ \A c \in Callers :
          pc[c] \in {"end_tally", "end_place"} => loc[c].arg = issued[loc[c].room]
    /\ (resp.op = "End" /\ resp.obj \in RoomObjs /\ resp.arg # issued[resp.obj])
          => resp.err = ErrorUnauthorized

\* C5: End on a room whose winner is already set tallies nothing and looks
\* no place up: no End call is at the tally or at the place lookup of a room
\* that has a winner.
C5_EndIdempotent ==
    \A c \in Callers :
        pc[c] \in {"end_tally", "end_place"} => heap[loc[c].room].Winner = ""

\* The choice SelectWinner is specified to return: of the choices with the
\* greatest count, the one declared first.
Greatest(m, choices) ==
    {k \in Range(choices) : \A j \in Range(choices) : m[j] <= m[k]}

SelectWinner(m, choices) ==
    choices[CHOOSE i \in 1..Len(choices) :
                /\ choices[i] \in Greatest(m, choices)
                /\ \A j \in 1..(i - 1) : choices[j] \notin Greatest(m, choices)]

\* The tally step of caller c, on a room whose vote counts have exactly the
\* choices as keys.
TallyStep(c) ==
    /\ pc[c] = "end_tally"
    /\ pc'[c] = "end_place"
    /\ ~heap[loc[c].room].Votes.isNil
    /\ DOMAIN heap[loc[c].room].Votes.m = Range(heap[loc[c].room].Choices)

\* C6: when some choice has a vote, the tally selects the choice with the
\* greatest count, and of several with the greatest count the one declared
\* first.
C6_TallyDeterministic ==
    [][\A c \in Callers :
          (/\ TallyStep(c)
           /\ \E k \in DOMAIN heap[loc[c].room].Votes.m :
                 heap[loc[c].room].Votes.m[k] > 0)
             => loc'[c].winner =
                   SelectWinner(heap[loc[c].room].Votes.m, heap[loc[c].room].Choices)]_vars

\* C7: when every count is zero, the tally selects the first choice in
\* declaration order, and not the empty category.
C7_ZeroCountsFirstChoice ==
    [][\A c \in Callers :
          (/\ TallyStep(c)
           /\ \A k \in DOMAIN heap[loc[c].room].Votes.m :
                 heap[loc[c].room].Votes.m[k] = 0)
             => /\ loc'[c].winner # ""
                /\ loc'[c].winner = heap[loc[c].room].Choices[1]]_vars

\* C8: on a room whose vote counts are in place, whenever no Vote call is
\* between Lock and Unlock, the counts sum to the number of voters, and both
\* equal the number of Vote calls that returned nil.
C8_NoLostVotes ==
    \A o \in RoomObjs :
        (~heap[o].Votes.isNil /\ ~VoteInProgress(o))
            => /\ MapSum(heap[o].Votes.m) = VotesReturned(o)
               /\ Len(heap[o].Voters) = VotesReturned(o)

\* C8 witness: two Vote calls for categories of the room have returned nil,
\* the second just now, and none is under way.
C8_Witness ==
    \E o \in RoomObjs :
        /\ ~heap[o].Votes.isNil
        /\ ~VoteInProgress(o)
        /\ VotesReturned(o) = 2
        /\ \A v \in VoteStrings \ Range(heap[o].Choices) : cast[o][v] = 0
        /\ resp.op = "Vote" /\ resp.obj = o /\ resp.err = NoError

\* C9: the keys of a room's vote counts are exactly its choices, in every
\* state.
C9_VoteKeysAreChoices ==
    \A o \in RoomObjs :
        /\ ~heap[o].Votes.isNil
        /\ DOMAIN heap[o].Votes.m = Range(heap[o].Choices)

\* C10: once a room's winner is set, no step sets it to another winner.
C10_WinnerSetOnce ==
    [][\A o \in RoomObjs :
          (heap[o].Winner # "" /\ heap'[o].Winner # "")
              => heap'[o].Winner = heap[o].Winner]_vars

\* A lookup step of caller c for the room ID id, by any of Get, Vote, End.
LookupStep(c, id) ==
    \/ GetLookup(c, id)
    \/ \E v \in VoteStrings : VoteLookup(c, id, v)
    \/ \E h \in HostArgs : EndLookup(c, id, h)

\* C11: Get, Vote and End called with an ID that has no registry entry each
\* answer ErrorRoomNotFound at once, and change no room object and no
\* registry entry.
C11_UnknownRoomNotFound ==
    [][\A c \in Callers, id \in RoomIDs :
          (Rooms[id] = 0 /\ LookupStep(c, id))
              => /\ resp'.op \in {"Get", "Vote", "End"}
                 /\ resp'.err = ErrorRoomNotFound
                 /\ ~resp'.body
                 /\ pc' = pc
                 /\ heap' = heap
                 /\ Rooms' = Rooms]_vars

\* C11 witness: a room is registered, and a call for another ID has just
\* been answered with ErrorRoomNotFound.
C11_Witness ==
    /\ \E id \in RoomIDs : Rooms[id] # 0
    /\ \E id \in RoomIDs : Rooms[id] = 0
    /\ resp.op \in {"Get", "Vote", "End"}
    /\ resp.obj = 0
    /\ resp.err = ErrorRoomNotFound

\* C12: when the place lookup that End makes fails, End answers with an
\* error and records no winner, so the room stays open.
C12_LookupFailureReported ==
    (resp.op = "End" /\ resp.obj \in RoomObjs /\ resp.lookupFailed)
        => /\ resp.err # NoError
           /\ heap[resp.obj].Winner = ""

\* C13: Get is read-only: no step of a Get call changes a field of any room
\* object (host ID, vote counts, voters, choices, winner), nor the registry.
C13_GetReadOnly ==
    [][\A c \in Callers :
          (pc[c] \in {"get_hostid", "get_votes", "get_send"} /\ pc'[c] # pc[c])
              => /\ heap' = heap
                 /\ Rooms' = Rooms]_vars

\* Caller c takes a step that writes a mutable field (voters, vote counts,
\* winner) of the registered room object o.
WritesRoom(c, o) ==
    /\ pc'[c] # pc[c]
    /\ \E id \in RoomIDs : Rooms[id] = o
    /\ \/ heap'[o].Voters # heap[o].Voters
       \/ heap'[o].Votes # heap[o].Votes
       \/ heap'[o].Winner # heap[o].Winner

\* C14: every step that writes the voters, the vote counts or the winner of
\* a registered room is taken by the caller that holds the room's lock.
C14_WritesUnderLock ==
    [][\A c \in Callers, o \in RoomObjs :
          WritesRoom(c, o) => heap'[o].locked = c]_vars

\* Caller c is at a step that reads the registry (the lookup of Get, Vote or
\* End); caller c is at the step that writes it (the insert of New).
RegistryRead(c) ==
    \/ \E id \in RoomIDs : GetLookup(c, id)
    \/ \E id \in RoomIDs, v \in VoteStrings : VoteLookup(c, id, v)
    \/ \E id \in RoomIDs, h \in HostArgs : EndLookup(c, id, h)

RegistryWrite(c) == NewInsert(c)

\* C15: in no state are two callers both at an access of the registry map
\* of which at least one is a write.
C15_RegistrySynchronised ==
    \A c, d \in Callers :
        c # d => ~(/\ ENABLED RegistryWrite(c)
                   /\ \/ ENABLED RegistryWrite(d)
                      \/ ENABLED RegistryRead(d))

\* C16: registration never replaces a room: a registry entry that points to
\* a room object keeps pointing to that object.
C16_NoReplacement ==
    [][\A id \in RoomIDs : Rooms[id] # 0 => Rooms'[id] = Rooms[id]]_vars

\* C17: the category End hands to the place lookup is one of the room's
\* choices; here for the categories that are not empty: none is a string
\* that only came in as a vote.
C17_CategoryIsChoice ==
    \A c \in Callers :
        (pc[c] = "end_place" /\ loc[c].winner # "")
            => loc[c].winner \in Range(heap[loc[c].room].Choices)

\* Caller c is in a Vote or End call on room object o, between the call's
\* Lock and its deferred Unlock.
HoldsLock(c, o) ==
    /\ loc[c].room = o
    /\ pc[c] \in {"vote_read", "vote_write", "vote_unlock",
                  "end_tally", "end_place", "end_unlock"}

\* Caller c is in a Vote or End call that has not returned.
InVoteOrEnd(c) ==
    pc[c] \in {"vote_lock", "vote_read", "vote_write", "vote_unlock",
               "end_lock", "end_tally", "end_place", "end_unlock"}

\* The lock of a room is held exactly by a call between Lock and Unlock.
LockFreeWhenNoCall ==
    \A o \in RoomObjs :
        /\ heap[o].locked # 0 => HoldsLock(heap[o].locked, o)
        /\ \A c \in Callers : HoldsLock(c, o) => heap[o].locked = c

C19_VoteNeverFaults ==
    (resp.op = "Vote" /\ resp.obj \in RoomObjs)
        => resp.err \in {NoError, ErrorRoomEnded}

\* C20: while an End call is between its tally and its winner assignment,
\* no other Vote or End call on the room is between Lock and Unlock, so no
\* Vote returns in between; and when the room's counts are in place they
\* hold every vote whose call returned nil, and the tallied category is a
\* tally of these counts.
C20_TallyAtomic ==
    \A c \in Callers :
        pc[c] = "end_place" =>
            LET o == loc[c].room IN
            /\ \A d \in Callers \ {c} : ~HoldsLock(d, o)
            /\ ~heap[o].Votes.isNil =>
                  /\ \A v \in VoteStrings :
                        MapGet(heap[o].Votes.m, v) = cast[o][v]
                  /\ loc[c].winner \in TallyWinners(heap[o].Votes)

\* C20 witness: an End call is between its tally and its winner assignment
\* while a Vote call on the same room waits in Lock.
C20_Witness ==
    \E c, d \in Callers :
        /\ pc[c] = "end_place"
        /\ pc[d] = "vote_lock"
        /\ loc[d].room = loc[c].room
        /\ ~heap[loc[c].room].Votes.isNil
====
